---- MODULE Spec2Model ----
(***************************************************************************)
(* The orchestrator core of my-browser: the SQLite state store             *)
(* (orchestrator/state.py), the circuit breaker                            *)
(* (orchestrator/circuit_breaker.py) and the control loop                  *)
(* (orchestrator/main.py).  Tables are sequences of rows in rowid order.   *)
(* Columns that no code path reads back (name, component, description,     *)
(* created_at, timestamps of checkpoints and logs) are left out; a         *)
(* completion timestamp is "null" or "set".                                *)
(***************************************************************************)
EXTENDS Integers, Sequences, FiniteSets, TLC

VARIABLES
    tasks,         \* table tasks
    agents,        \* table agents
    checkpoints,   \* table checkpoints
    logs,          \* number of rows of table logs
    budget,        \* config.MAX_TOKENS_BUDGET as set by run.py
    total_tokens,  \* BaseAgent.total_tokens of every agent object
    pc,            \* position of Orchestrator.run
    status,        \* local `status` of Orchestrator.run (last check())
    task,          \* local Task object of run/_process_task/_handle_qa_rejection
    agent_id,      \* local agent_id of _process_task
    calls,         \* per task: capability invocations made so far
    ret            \* last value returned by a store/breaker call made directly

vars == <<tasks, agents, checkpoints, logs, budget, total_tokens, pc, status,
          task, agent_id, calls, ret>>

-----------------------------------------------------------------------------
(* Program constants (config.py) *)
NUM_CODING_AGENTS == 3
MAX_TASK_RETRIES == 3
MAX_BLOCKED_TASKS == 3
MAX_TOKENS_BUDGET == 2000000
CHECKPOINT_INTERVAL == 10

(* Bounds of the model *)
NumTasks == 2        \* tasks in a catalog of the run
MaxBudgetArg == 3    \* largest --max-budget override tried
RunTokens == 1       \* tokens one agent run consumes
StoreTasks == 4      \* rows of a tasks table handed to check()
MaxStoredTokens == 2 \* largest usage stored for one agent before a call
MaxFailureCalls == 4 \* calls of handle_task_failure made on one task
MaxLoaderCalls == 2  \* calls of initialize_tasks made on one store
ResumePending == 1   \* PENDING tasks in a store the run is resumed on
MaxCounted == 21     \* rows of a tasks table handed to should_checkpoint()
FreshTasks == 2      \* tasks in a catalog of the run that is followed to its end

(* Python None / SQL NULL *)
None == "None"
NoTask == 0
NoneTask == [id |-> NoTask]

TaskStatus == {"pending", "in_progress", "in_qa", "blocked", "completed"}
AgentStatus == {"idle", "working", "waiting_qa"}
SystemStatus == {"running", "needs_human", "budget_exceeded", "completed"}

QaAgentId == "qa-agent"
CodingAgentId(i) == "coding-" \o ToString(i)
CodingAgentIds == {CodingAgentId(i) : i \in 1..NUM_CODING_AGENTS}
AgentIds == CodingAgentIds \cup {QaAgentId}

Range(s) == {s[i] : i \in DOMAIN s}

RECURSIVE SumTokens(_)
SumTokens(rows) ==
    IF rows = <<>> THEN 0
    ELSE Head(rows).total_tokens_used + SumTokens(Tail(rows))

RECURSIVE Without(_, _)
Without(rows, id) ==
    IF rows = <<>> THEN <<>>
    ELSE IF Head(rows).id = id THEN Without(Tail(rows), id)
         ELSE <<Head(rows)>> \o Without(Tail(rows), id)

-----------------------------------------------------------------------------
(* StateManager: task operations *)

create_task(ts, dependencies) ==
    Append(ts, [id |-> Len(ts) + 1, status |-> "pending",
                assigned_agent |-> None, retries |-> 0,
                dependencies |-> dependencies, completed_at |-> "null"])

get_task(ts, task_id) ==
    IF \E i \in DOMAIN ts : ts[i].id = task_id
    THEN ts[CHOOSE i \in DOMAIN ts : ts[i].id = task_id]
    ELSE NoneTask

\* variant: the count forgets the filter on status
_dependencies_met_any_status(ts, dep_ids) ==
    IF Len(dep_ids) = 0 THEN TRUE
    ELSE Cardinality({i \in DOMAIN ts : ts[i].id \in Range(dep_ids)})
             = Len(dep_ids)

_dependencies_met(ts, dep_ids) ==
    IF Len(dep_ids) = 0 THEN TRUE
    ELSE Cardinality({i \in DOMAIN ts :
                         /\ ts[i].id \in Range(dep_ids)
                         /\ ts[i].status = "completed"}) = Len(dep_ids)

\* variant: ORDER BY id DESC
get_next_pending_task_highest(ts) ==
    LET eligible == {i \in DOMAIN ts :
                        /\ ts[i].status = "pending"
                        /\ _dependencies_met(ts, ts[i].dependencies)}
    IN  IF eligible = {} THEN NoneTask
        ELSE ts[CHOOSE i \in eligible : \A j \in eligible : ts[i].id >= ts[j].id]

\* variant: the SELECT takes every task that is not COMPLETED
get_next_pending_task_unfinished(ts) ==
    LET eligible == {i \in DOMAIN ts :
                        /\ ts[i].status # "completed"
                        /\ _dependencies_met(ts, ts[i].dependencies)}
    IN  IF eligible = {} THEN NoneTask
        ELSE ts[CHOOSE i \in eligible : \A j \in eligible : ts[i].id <= ts[j].id]

get_next_pending_task(ts) ==
    LET eligible == {i \in DOMAIN ts :
                        /\ ts[i].status = "pending"
                        /\ _dependencies_met(ts, ts[i].dependencies)}
    IN  IF eligible = {} THEN NoneTask
        ELSE ts[CHOOSE i \in eligible : \A j \in eligible : ts[i].id <= ts[j].id]

\* variant: the UPDATE has no WHERE clause
update_task_status_all(ts, task_id, st, assigned_agent) ==
    [i \in DOMAIN ts |->
        IF st = "completed"
        THEN [ts[i] EXCEPT !.status = st,
                           !.assigned_agent = assigned_agent,
                           !.completed_at = "set"]
        ELSE [ts[i] EXCEPT !.status = st,
                           !.assigned_agent = assigned_agent]]

\* variant: every transition stamps completed_at
update_task_status_stamps(ts, task_id, st, assigned_agent) ==
    [i \in DOMAIN ts |->
        IF ts[i].id # task_id THEN ts[i]
        ELSE [ts[i] EXCEPT !.status = st,
                           !.assigned_agent = assigned_agent,
                           !.completed_at = "set"]]

update_task_status(ts, task_id, st, assigned_agent) ==
    [i \in DOMAIN ts |->
        IF ts[i].id # task_id THEN ts[i]
        ELSE IF st = "completed"
             THEN [ts[i] EXCEPT !.status = st,
                                !.assigned_agent = assigned_agent,
                                !.completed_at = "set"]
             ELSE [ts[i] EXCEPT !.status = st,
                                !.assigned_agent = assigned_agent]]

\* variant: the UPDATE matches no row
increment_task_retries_lost(ts, task_id) == ts

increment_task_retries(ts, task_id) ==
    [i \in DOMAIN ts |->
        IF ts[i].id = task_id THEN [ts[i] EXCEPT !.retries = @ + 1] ELSE ts[i]]

get_blocked_task_count(ts) ==
    Cardinality({i \in DOMAIN ts : ts[i].status = "blocked"})

get_completed_task_count(ts) ==
    Cardinality({i \in DOMAIN ts : ts[i].status = "completed"})

(* StateManager: agent operations *)

\* variant: an upsert that resets the status and keeps the other columns
register_agent_keep_usage(ags, id, agent_type) ==
    IF \E i \in DOMAIN ags : ags[i].id = id
    THEN [i \in DOMAIN ags |->
             IF ags[i].id = id
             THEN [ags[i] EXCEPT !.status = "idle", !.agent_type = agent_type]
             ELSE ags[i]]
    ELSE Append(ags, [id |-> id, agent_type |-> agent_type, status |-> "idle",
                      current_task_id |-> NoTask, total_tokens_used |-> 0,
                      conversation_history |-> <<>>])

register_agent(ags, id, agent_type) ==
    Append(Without(ags, id),
           [id |-> id, agent_type |-> agent_type, status |-> "idle",
            current_task_id |-> NoTask, total_tokens_used |-> 0,
            conversation_history |-> <<>>])

\* variant: the SELECT does not test agent_type
get_idle_coding_agent_any_type(ags) ==
    LET idle == {i \in DOMAIN ags : ags[i].status = "idle"}
    IN  IF idle = {} THEN None
        ELSE ags[CHOOSE i \in idle : \A j \in idle : i <= j].id

get_idle_coding_agent(ags) ==
    LET idle == {i \in DOMAIN ags :
                    ags[i].agent_type = "coding" /\ ags[i].status = "idle"}
    IN  IF idle = {} THEN None
        ELSE ags[CHOOSE i \in idle : \A j \in idle : i <= j].id

update_agent_status(ags, id, st, current_task_id) ==
    [i \in DOMAIN ags |->
        IF ags[i].id = id
        THEN [ags[i] EXCEPT !.status = st, !.current_task_id = current_task_id]
        ELSE ags[i]]

add_agent_tokens(ags, id, tokens) ==
    [i \in DOMAIN ags |->
        IF ags[i].id = id
        THEN [ags[i] EXCEPT !.total_tokens_used = @ + tokens]
        ELSE ags[i]]

get_total_tokens_used(ags) == SumTokens(ags)

(* StateManager: checkpoints *)

create_checkpoint(cps, ts, ags, state_summary) ==
    Append(cps, [completed_tasks |-> get_completed_task_count(ts),
                 total_tokens |-> get_total_tokens_used(ags),
                 state_summary |-> state_summary])

-----------------------------------------------------------------------------
(* CircuitBreaker *)

\* variant: the completion test is missing
check_no_completion(ts, ags, cps, max_budget) ==
    IF get_total_tokens_used(ags) >= max_budget
    THEN [status |-> "budget_exceeded",
          checkpoints |-> create_checkpoint(cps, ts, ags, "budget")]
    ELSE IF get_blocked_task_count(ts) >= MAX_BLOCKED_TASKS
    THEN [status |-> "needs_human",
          checkpoints |-> create_checkpoint(cps, ts, ags, "blocked")]
    ELSE [status |-> "running", checkpoints |-> cps]

\* the completion test of check()
check_completion(ts, cps) ==
    LET completed == Cardinality({i \in DOMAIN ts : ts[i].status = "completed"})
        blocked == Cardinality({i \in DOMAIN ts : ts[i].status = "blocked"})
    IN  IF completed + blocked = Len(ts)
        THEN IF blocked = 0
             THEN [status |-> "completed", checkpoints |-> cps]
             ELSE [status |-> "needs_human", checkpoints |-> cps]
        ELSE [status |-> "running", checkpoints |-> cps]

\* variant: the blocked-count test comes before the budget test
check_blocked_first(ts, ags, cps, max_budget) ==
    IF get_blocked_task_count(ts) >= MAX_BLOCKED_TASKS
    THEN [status |-> "needs_human",
          checkpoints |-> create_checkpoint(cps, ts, ags, "blocked")]
    ELSE IF get_total_tokens_used(ags) >= max_budget
    THEN [status |-> "budget_exceeded",
          checkpoints |-> create_checkpoint(cps, ts, ags, "budget")]
    ELSE IF Len(ts) # 0 THEN check_completion(ts, cps)
    ELSE [status |-> "running", checkpoints |-> cps]

\* variant: the blocked-count test is > instead of >=
check_threshold_gt(ts, ags, cps, max_budget) ==
    IF get_total_tokens_used(ags) >= max_budget
    THEN [status |-> "budget_exceeded",
          checkpoints |-> create_checkpoint(cps, ts, ags, "budget")]
    ELSE IF get_blocked_task_count(ts) > MAX_BLOCKED_TASKS
    THEN [status |-> "needs_human",
          checkpoints |-> create_checkpoint(cps, ts, ags, "blocked")]
    ELSE IF Len(ts) # 0 THEN check_completion(ts, cps)
    ELSE [status |-> "running", checkpoints |-> cps]

\* variant: the completion test is not guarded by `if all_tasks`
check_no_guard(ts, ags, cps, max_budget) ==
    IF get_total_tokens_used(ags) >= max_budget
    THEN [status |-> "budget_exceeded",
          checkpoints |-> create_checkpoint(cps, ts, ags, "budget")]
    ELSE IF get_blocked_task_count(ts) >= MAX_BLOCKED_TASKS
    THEN [status |-> "needs_human",
          checkpoints |-> create_checkpoint(cps, ts, ags, "blocked")]
    ELSE check_completion(ts, cps)

\* variant: no checkpoint is written when the budget is exceeded
check_budget_no_checkpoint(ts, ags, cps, max_budget) ==
    IF get_total_tokens_used(ags) >= max_budget
    THEN [status |-> "budget_exceeded", checkpoints |-> cps]
    ELSE IF get_blocked_task_count(ts) >= MAX_BLOCKED_TASKS
    THEN [status |-> "needs_human",
          checkpoints |-> create_checkpoint(cps, ts, ags, "blocked")]
    ELSE IF Len(ts) # 0 THEN check_completion(ts, cps)
    ELSE [status |-> "running", checkpoints |-> cps]

\* check(): the status returned and the checkpoints table it leaves
check(ts, ags, cps, max_budget) ==
    LET total_tokens_used == get_total_tokens_used(ags)
        blocked_count == get_blocked_task_count(ts)
    IN  IF total_tokens_used >= max_budget
        THEN [status |-> "budget_exceeded",
              checkpoints |-> create_checkpoint(cps, ts, ags, "budget")]
        ELSE IF blocked_count >= MAX_BLOCKED_TASKS
        THEN [status |-> "needs_human",
              checkpoints |-> create_checkpoint(cps, ts, ags, "blocked")]
        ELSE IF ts # <<>> THEN check_completion(ts, cps)
        ELSE [status |-> "running", checkpoints |-> cps]

\* variant: the test completed > 0 is missing
should_checkpoint_zero(ts) ==
    get_completed_task_count(ts) % CHECKPOINT_INTERVAL = 0

should_checkpoint(ts) ==
    LET completed == get_completed_task_count(ts)
    IN  completed > 0 /\ completed % CHECKPOINT_INTERVAL = 0

\* variant: the ceiling test is > instead of >=
handle_task_failure_gt(ts, task_id) ==
    LET after == increment_task_retries(ts, task_id)
        retries == get_task(after, task_id).retries
    IN  IF retries > MAX_TASK_RETRIES
        THEN [tasks |-> after, retry |-> FALSE, logged |-> 1]
        ELSE [tasks |-> after, retry |-> TRUE, logged |-> 1]

\* handle_task_failure(task_id): the tasks table it leaves, the value it
\* returns and the number of log rows it appends
handle_task_failure(ts, task_id) ==
    LET after == increment_task_retries(ts, task_id)
        retries == get_task(after, task_id).retries
    IN  IF retries >= MAX_TASK_RETRIES
        THEN [tasks |-> after, retry |-> FALSE, logged |-> 1]
        ELSE [tasks |-> after, retry |-> TRUE, logged |-> 1]

-----------------------------------------------------------------------------
(* Task catalogs and construction of the orchestrator *)

RECURSIVE SetToSeq(_)
SetToSeq(S) ==
    IF S = {} THEN <<>>
    ELSE LET m == CHOOSE x \in S : \A y \in S : x <= y
         IN  <<m>> \o SetToSeq(S \ {m})

RECURSIVE Peel(_, _)
Peel(cat, S) ==
    LET free == {i \in S : Range(cat[i]) \cap S = {}}
    IN  IF free = {} THEN S ELSE Peel(cat, S \ free)

IsDAG(cat) == Peel(cat, DOMAIN cat) = {}

\* the catalogs tried: 1..NumTasks tasks, each depending on a duplicate-free
\* list of tasks of the catalog, the whole forming a DAG
Catalogs ==
    UNION {{cat \in [1..n -> {SetToSeq(S) : S \in SUBSET (1..n)}] : IsDAG(cat)}
           : n \in 1..NumTasks}

\* variant: the catalog is loaded last entry first
LoadCatalog_reversed(ts, cat) ==
    [i \in 1..Len(cat) |->
        [id |-> i, status |-> "pending", assigned_agent |-> None, retries |-> 0,
         dependencies |-> cat[Len(cat) + 1 - i], completed_at |-> "null"]]

RECURSIVE LoadCatalog(_, _)
LoadCatalog(ts, cat) ==
    IF cat = <<>> THEN ts
    ELSE LoadCatalog(create_task(ts, Head(cat)), Tail(cat))

\* variant: the test for existing tasks is missing
initialize_tasks_always(ts, cat) == LoadCatalog(ts, cat)

\* initialize_tasks(state): the tasks table it leaves
initialize_tasks(ts, cat) == IF ts # <<>> THEN ts ELSE LoadCatalog(ts, cat)

RECURSIVE RegisterCoding(_, _)
RegisterCoding(ags, i) ==
    IF i > NUM_CODING_AGENTS THEN ags
    ELSE RegisterCoding(register_agent(ags, CodingAgentId(i), "coding"), i + 1)

\* Orchestrator._setup_agents: the agents table it leaves
_setup_agents(ags) == register_agent(RegisterCoding(ags, 1), QaAgentId, "qa")

\* per task: Worker invocations (work_on_task and fix_issues), those that
\* failed, Reviewer invocations, whether a verdict was neither approve nor
\* reject, calls of handle_task_failure, and calls of _process_task
NoCalls == [work |-> 0, work_failed |-> 0, review |-> 0, unclear |-> FALSE,
            failures |-> 0, processed |-> 0]

Init ==
    /\ budget \in {MAX_TOKENS_BUDGET} \cup (1..MaxBudgetArg)
    /\ \E cat \in Catalogs : tasks = initialize_tasks(<<>>, cat)
    /\ agents = _setup_agents(<<>>)
    /\ checkpoints = <<>>
    /\ logs = 1
    /\ total_tokens = [a \in AgentIds |-> 0]
    /\ pc = "start"
    /\ status = "none"
    /\ task = NoneTask
    /\ agent_id = None
    /\ calls = [t \in DOMAIN tasks |-> NoCalls]
    /\ ret = [op |-> "none"]

-----------------------------------------------------------------------------
(* Orchestrator.run and the task lifecycle *)

\* run(): entry, up to the loop
run_start ==
    /\ pc = "start"
    /\ logs' = logs + 1
    /\ pc' = "check"
    /\ UNCHANGED <<tasks, agents, checkpoints, budget, total_tokens, status,
                   task, agent_id, calls, ret>>

\* loop head: circuit_breaker.check(), _handle_stop on a stop
run_check ==
    /\ pc = "check"
    /\ LET r == check(tasks, agents, checkpoints, budget)
       IN  /\ status' = r.status
           /\ checkpoints' = r.checkpoints
           /\ IF r.status # "running"
              THEN logs' = logs + 1 /\ pc' = "done"
              ELSE logs' = logs /\ pc' = "get_next"
    /\ UNCHANGED <<tasks, agents, budget, total_tokens, task, agent_id, calls, ret>>

\* variant: the run stops whenever no task is returned
run_get_next_no_wait ==
    /\ pc = "get_next"
    /\ LET t == get_next_pending_task(tasks)
       IN  /\ task' = t
           /\ pc' = IF t # NoneTask THEN "process" ELSE "done"
    /\ UNCHANGED <<tasks, agents, checkpoints, logs, budget, total_tokens,
                   status, agent_id, calls, ret>>

\* get_next_pending_task() and the branch on its result
run_get_next ==
    /\ pc = "get_next"
    /\ LET t == get_next_pending_task(tasks)
           in_progress == {i \in DOMAIN tasks :
                              tasks[i].status \in {"in_progress", "in_qa"}}
       IN  /\ task' = t
           /\ pc' = IF t # NoneTask THEN "process"
                    ELSE IF in_progress # {} THEN "check" ELSE "done"
    /\ UNCHANGED <<tasks, agents, checkpoints, logs, budget, total_tokens,
                   status, agent_id, calls, ret>>

\* _process_task up to the call of agent.work_on_task
process_task_begin ==
    /\ pc = "process"
    /\ LET idle == get_idle_coding_agent(agents)
           a == IF idle = None THEN CodingAgentId(1) ELSE idle
       IN  /\ agent_id' = a
           /\ tasks' = update_task_status(tasks, task.id, "in_progress", a)
           /\ agents' = update_agent_status(agents, a, "working", task.id)
    /\ logs' = logs + 1
    /\ calls' = [calls EXCEPT ![task.id].work = @ + 1,
                              ![task.id].processed = @ + 1]
    /\ pc' = "work"
    /\ UNCHANGED <<checkpoints, budget, total_tokens, status, task, ret>>

\* variant: _block_task leaves the task's status
_block_task_tasks_skip(ts, tk) == ts

\* _block_task(tk) applied to the tables ts, ags
_block_task_tasks(ts, tk) == update_task_status(ts, tk.id, "blocked", None)
_block_task_agents(ags, tk) == update_agent_status(ags, tk.assigned_agent, "idle", NoTask)

\* _handle_task_failure(task, error) after a failed work_on_task; ags are
\* the agents after add_agent_tokens
_handle_task_failure(ags) ==
    LET h == handle_task_failure(tasks, task.id)
    IN  /\ IF ~ h.retry
           THEN /\ tasks' = _block_task_tasks(h.tasks, task)
                /\ agents' = _block_task_agents(ags, task)
                /\ logs' = logs + 1 + h.logged + 1
           ELSE /\ tasks' = update_task_status(h.tasks, task.id, "pending", None)
                /\ agents' = update_agent_status(ags, task.assigned_agent, "idle", NoTask)
                /\ logs' = logs + 1 + h.logged
        /\ pc' = "checkpoint"
        /\ UNCHANGED task

\* _handle_qa_rejection(tk, agent, issues) up to the call of agent.fix_issues
\* or to its return; ts, ags are the tables when it is entered, cl the
\* invocation counts
_handle_qa_rejection(tk, ts, ags, cl) ==
    LET h == handle_task_failure(ts, tk.id)
    IN  /\ task' = tk
        /\ IF h.retry
           THEN /\ tasks' = h.tasks
                /\ agents' = ags
                /\ logs' = logs + h.logged
                /\ calls' = [cl EXCEPT ![tk.id].failures = @ + 1,
                                       ![tk.id].work = @ + 1]
                /\ pc' = "fix"
           ELSE /\ tasks' = _block_task_tasks(h.tasks, tk)
                /\ agents' = _block_task_agents(ags, tk)
                /\ logs' = logs + h.logged + 1
                /\ calls' = [cl EXCEPT ![tk.id].failures = @ + 1]
                /\ pc' = "checkpoint"

\* the "still failing" tail of _handle_qa_rejection
still_failing(ags, cl) ==
    LET updated_task == get_task(tasks, task.id)
    IN  IF updated_task.retries < MAX_TASK_RETRIES
        THEN _handle_qa_rejection(updated_task, tasks, ags, cl)
        ELSE /\ tasks' = _block_task_tasks(tasks, task)
             /\ agents' = _block_task_agents(ags, task)
             /\ logs' = logs + 1
             /\ calls' = cl
             /\ UNCHANGED task
             /\ pc' = "checkpoint"

\* the invocation counts after a review that returned tool_name
after_verdict(tool_name) ==
    IF tool_name \in {"approve", "reject"} THEN calls
    ELSE [calls EXCEPT ![task.id].unclear = TRUE]

\* agent.run returns: BaseAgent.total_tokens after it, and the agents table
\* after add_agent_tokens(id, result.tokens_used)
tokens_after_run(id) == total_tokens[id] + RunTokens
agents_after_run(id) == add_agent_tokens(agents, id, tokens_after_run(id))

\* work_on_task returns; _process_task continues to the call of review_task
\* or returns through _handle_task_failure
work_returns(success) ==
    /\ pc = "work"
    /\ total_tokens' = [total_tokens EXCEPT ![agent_id] = tokens_after_run(agent_id)]
    /\ IF ~ success
       THEN /\ _handle_task_failure(agents_after_run(agent_id))
            /\ calls' = [calls EXCEPT ![task.id].work_failed = @ + 1,
                                      ![task.id].failures = @ + 1]
       ELSE /\ tasks' = update_task_status(tasks, task.id, "in_qa", agent_id)
            /\ agents' = update_agent_status(agents_after_run(agent_id), agent_id,
                                             "waiting_qa", task.id)
            /\ calls' = [calls EXCEPT ![task.id].review = @ + 1]
            /\ pc' = "qa"
            /\ UNCHANGED <<logs, task>>
    /\ UNCHANGED <<checkpoints, budget, status, agent_id, ret>>

\* variant: a review that neither approves nor rejects blocks the task
_handle_qa_unclear_blocks(tk, ts, ags, cl) ==
    /\ task' = tk
    /\ tasks' = _block_task_tasks(ts, tk)
    /\ agents' = _block_task_agents(ags, tk)
    /\ logs' = logs + 1
    /\ calls' = cl
    /\ pc' = "checkpoint"

\* the else branch of _process_task: the review neither approved nor
\* rejected
_handle_qa_unclear(tk, ts, ags, cl) == _handle_qa_rejection(tk, ts, ags, cl)

\* review_task returns tool_name in _process_task; cl are the invocation
\* counts to continue from
review_outcome(tool_name, cl) ==
    /\ pc = "qa"
    /\ total_tokens' = [total_tokens EXCEPT ![QaAgentId] = tokens_after_run(QaAgentId)]
    /\ IF tool_name = "approve"
       THEN /\ tasks' = update_task_status(tasks, task.id, "completed", agent_id)
            /\ agents' = update_agent_status(agents_after_run(QaAgentId), agent_id,
                                             "idle", NoTask)
            /\ logs' = logs + 1
            /\ pc' = "checkpoint"
            /\ calls' = cl
            /\ UNCHANGED task
       ELSE IF tool_name = "reject"
       THEN _handle_qa_rejection(task, tasks, agents_after_run(QaAgentId), cl)
       ELSE _handle_qa_unclear(task, tasks, agents_after_run(QaAgentId), cl)
    /\ UNCHANGED <<checkpoints, budget, status, agent_id, ret>>

review_returns(tool_name) == review_outcome(tool_name, after_verdict(tool_name))

\* fix_issues returns in _handle_qa_rejection
fix_returns(success) ==
    /\ pc = "fix"
    /\ total_tokens' = [total_tokens EXCEPT ![agent_id] = tokens_after_run(agent_id)]
    /\ IF success
       THEN /\ agents' = agents_after_run(agent_id)
            /\ calls' = [calls EXCEPT ![task.id].review = @ + 1]
            /\ pc' = "fix_qa"
            /\ UNCHANGED <<tasks, logs, task>>
       ELSE still_failing(agents_after_run(agent_id),
                          [calls EXCEPT ![task.id].work_failed = @ + 1])
    /\ UNCHANGED <<checkpoints, budget, status, agent_id, ret>>

\* review_task returns tool_name in _handle_qa_rejection; cl are the
\* invocation counts to continue from
fix_review_outcome(tool_name, cl) ==
    /\ pc = "fix_qa"
    /\ total_tokens' = [total_tokens EXCEPT ![QaAgentId] = tokens_after_run(QaAgentId)]
    /\ IF tool_name = "approve"
       THEN /\ tasks' = update_task_status(tasks, task.id, "completed", agent_id)
            /\ agents' = update_agent_status(agents_after_run(QaAgentId), agent_id,
                                             "idle", NoTask)
            /\ logs' = logs + 1
            /\ pc' = "checkpoint"
            /\ calls' = cl
            /\ UNCHANGED task
       ELSE still_failing(agents_after_run(QaAgentId), cl)
    /\ UNCHANGED <<checkpoints, budget, status, agent_id, ret>>

fix_review_returns(tool_name) ==
    fix_review_outcome(tool_name, after_verdict(tool_name))

\* back in run(): the periodic checkpoint after _process_task
run_checkpoint ==
    /\ pc = "checkpoint"
    /\ checkpoints' = IF should_checkpoint(tasks)
                      THEN create_checkpoint(checkpoints, tasks, agents, "periodic")
                      ELSE checkpoints
    /\ pc' = "check"
    /\ UNCHANGED <<tasks, agents, logs, budget, total_tokens, status, task,
                   agent_id, calls, ret>>

ToolNames == {"approve", "reject", "none"}

Next ==
    \/ run_start
    \/ run_check
    \/ run_get_next
    \/ process_task_begin
    \/ \E success \in BOOLEAN : work_returns(success)
    \/ \E tool_name \in ToolNames : review_returns(tool_name)
    \/ \E success \in BOOLEAN : fix_returns(success)
    \/ \E tool_name \in ToolNames : fix_review_returns(tool_name)
    \/ run_checkpoint

Spec == Init /\ [][Next]_vars


BROWSER_TASKS ==
    <<(<<>>), <<1>>, <<1>>, <<1>>, <<1>>, <<1>>, <<5, 6>>, <<4, 5, 6>>,
      <<3, 8>>, <<2, 3, 7, 9>>>>

\* the catalogs of the runs followed to their end: the first tasks of
\* BROWSER_TASKS, and as many tasks without dependencies
FreshCatalogs ==
    UNION {{SubSeq(BROWSER_TASKS, 1, n), [i \in 1..n |-> <<>>]}
           : n \in 1..FreshTasks}

\* Orchestrator() on an empty store, as Init, with one of these catalogs
InitFresh ==
    /\ budget \in {MAX_TOKENS_BUDGET, MaxBudgetArg}
    /\ \E cat \in FreshCatalogs : tasks = initialize_tasks(<<>>, cat)
    /\ agents = _setup_agents(<<>>)
    /\ checkpoints = <<>>
    /\ logs = 1
    /\ total_tokens = [a \in AgentIds |-> 0]
    /\ pc = "start"
    /\ status = "none"
    /\ task = NoneTask
    /\ agent_id = None
    /\ calls = [t \in DOMAIN tasks |-> NoCalls]
    /\ ret = [op |-> "none"]

\* the run when every call returns: the single thread of run() takes its
\* next step whenever it has one
SpecFair == InitFresh /\ [][Next]_vars /\ WF_vars(Next)

\* Orchestrator(resume=True) on the store an earlier process left: the
\* tasks as committed (at most one of them in flight, a BLOCKED one with its
\* retries used up, tasks after the first depending on it or on nothing, and
\* none started before its dependency was COMPLETED), initialize_tasks not
\* called, every agent registered anew. The store holds up to ResumeTasks
\* tasks, enough for MAX_BLOCKED_TASKS of them to be BLOCKED and one not.
ResumeTasks == MAX_BLOCKED_TASKS + 1

InitResume ==
    /\ budget \in {MAX_TOKENS_BUDGET, MaxBudgetArg}
    /\ \E n \in 0..ResumeTasks, after_first \in BOOLEAN :
        \E sts \in [1..n -> TaskStatus] :
          /\ Cardinality({i \in 1..n : sts[i] = "pending"}) <= ResumePending
          /\ Cardinality({i \in 1..n : sts[i] \in {"in_progress", "in_qa"}}) <= 1
          /\ after_first =>
                /\ n > 1
                /\ \A i \in 2..n : sts[i] # "pending" => sts[1] = "completed"
          /\ tasks = [i \in 1..n |->
                [id |-> i,
                 status |-> sts[i],
                 assigned_agent |-> IF sts[i] \in {"in_progress", "in_qa"}
                                    THEN CodingAgentId(1) ELSE None,
                 retries |-> IF sts[i] = "blocked" THEN MAX_TASK_RETRIES ELSE 0,
                 dependencies |-> IF after_first /\ i > 1 THEN <<1>> ELSE <<>>,
                 completed_at |-> IF sts[i] = "completed" THEN "set" ELSE "null"]]
    /\ agents = _setup_agents(<<>>)
    /\ checkpoints = <<>>
    /\ logs = 1
    /\ total_tokens = [a \in AgentIds |-> 0]
    /\ pc = "start"
    /\ status = "none"
    /\ task = NoneTask
    /\ agent_id = None
    /\ calls = [t \in DOMAIN tasks |-> NoCalls]
    /\ ret = [op |-> "none"]

SpecResume == InitResume /\ [][Next]_vars

SpecResumeFair == SpecResume /\ WF_vars(Next)

\* Orchestrator(resume=True) on a store whose tasks are COMPLETED but for
\* the last ones, still PENDING, with the number of COMPLETED tasks at
\* CHECKPOINT_INTERVAL or one below it
InitInterval ==
    /\ budget = MAX_TOKENS_BUDGET
    /\ \E c \in {CHECKPOINT_INTERVAL - 1, CHECKPOINT_INTERVAL},
          p \in 1..ResumePending :
          tasks = [i \in 1..(c + p) |->
                [id |-> i,
                 status |-> IF i <= c THEN "completed" ELSE "pending",
                 assigned_agent |-> IF i <= c THEN CodingAgentId(1) ELSE None,
                 retries |-> 0,
                 dependencies |-> <<>>,
                 completed_at |-> IF i <= c THEN "set" ELSE "null"]]
    /\ agents = _setup_agents(<<>>)
    /\ checkpoints = <<>>
    /\ logs = 1
    /\ total_tokens = [a \in AgentIds |-> 0]
    /\ pc = "start"
    /\ status = "none"
    /\ task = NoneTask
    /\ agent_id = None
    /\ calls = [t \in DOMAIN tasks |-> NoCalls]
    /\ ret = [op |-> "none"]

SpecInterval == InitInterval /\ [][Next]_vars

-----------------------------------------------------------------------------
(* The store and the circuit breaker called directly *)

\* the orchestrator's own state while the store is exercised directly
NoRun ==
    /\ checkpoints = <<>>
    /\ logs = 0
    /\ total_tokens = [a \in AgentIds |-> 0]
    /\ pc = "store"
    /\ status = "none"
    /\ task = NoneTask
    /\ agent_id = None
    /\ calls = [t \in DOMAIN tasks |-> NoCalls]
    /\ ret = [op |-> "none"]

TaskRow(i, st, deps) ==
    [id |-> i, status |-> st, assigned_agent |-> None, retries |-> 0,
     dependencies |-> deps,
     completed_at |-> IF st = "completed" THEN "set" ELSE "null"]

\* tasks tables of n rows with any statuses and any duplicate-free
\* dependency lists over the ids of the table
TaskTables(n, DepLists) ==
    {[i \in 1..n |-> TaskRow(i, sts[i], deps[i])] :
        sts \in [1..n -> TaskStatus], deps \in [1..n -> DepLists]}

(* get_next_pending_task on any store *)

InitSched ==
    /\ \E n \in 0..NumTasks :
           tasks \in TaskTables(n, {SetToSeq(S) : S \in SUBSET (1..n)})
    /\ agents = _setup_agents(<<>>)
    /\ budget = MAX_TOKENS_BUDGET
    /\ NoRun

call_get_next_pending_task ==
    /\ pc = "store"
    /\ ret' = [op |-> "get_next_pending_task",
               value |-> get_next_pending_task(tasks)]
    /\ UNCHANGED <<tasks, agents, checkpoints, logs, budget, total_tokens, pc,
                   status, task, agent_id, calls>>

SpecSched == InitSched /\ [][call_get_next_pending_task]_vars

(* handle_task_failure called repeatedly *)

InitRetry ==
    /\ \E n \in 1..NumTasks : tasks \in TaskTables(n, {<<>>})
    /\ agents = _setup_agents(<<>>)
    /\ budget = MAX_TOKENS_BUDGET
    /\ NoRun

call_handle_task_failure(task_id) ==
    /\ pc = "store"
    /\ calls[task_id].failures < MaxFailureCalls
    /\ LET h == handle_task_failure(tasks, task_id)
       IN  /\ tasks' = h.tasks
           /\ logs' = logs + h.logged
           /\ ret' = [op |-> "handle_task_failure", task_id |-> task_id,
                      value |-> h.retry]
    /\ calls' = [calls EXCEPT ![task_id].failures = @ + 1]
    /\ UNCHANGED <<agents, checkpoints, budget, total_tokens, pc, status, task,
                   agent_id>>

NextRetry == \E task_id \in DOMAIN tasks : call_handle_task_failure(task_id)

SpecRetry == InitRetry /\ [][NextRetry]_vars

(* check() on any store *)

InitBreaker ==
    /\ \E n \in 0..StoreTasks : tasks \in TaskTables(n, {<<>>})
    /\ \E c, q \in 0..MaxStoredTokens :
           agents = add_agent_tokens(
                        add_agent_tokens(_setup_agents(<<>>), CodingAgentId(1), c),
                        QaAgentId, q)
    /\ budget \in {MAX_TOKENS_BUDGET} \cup (1..MaxBudgetArg)
    /\ NoRun

call_check ==
    /\ pc = "store"
    /\ ret.op = "none"
    /\ LET r == check(tasks, agents, checkpoints, budget)
       IN  /\ checkpoints' = r.checkpoints
           /\ ret' = [op |-> "check", value |-> r.status]
    /\ UNCHANGED <<tasks, agents, logs, budget, total_tokens, pc, status, task,
                   agent_id, calls>>

SpecBreaker == InitBreaker /\ [][call_check]_vars

(* the agents table through its operations *)

RegIds == {CodingAgentId(1), QaAgentId}
AgentTypes == {"coding", "qa"}

InitAgents ==
    /\ tasks = <<>>
    /\ agents = <<>>
    /\ budget = MAX_TOKENS_BUDGET
    /\ NoRun

call_register_agent(id, agent_type) ==
    /\ pc = "store"
    /\ agents' = register_agent(agents, id, agent_type)
    /\ ret' = [op |-> "register_agent", id |-> id, agent_type |-> agent_type,
               prior |-> IF \E i \in DOMAIN agents : agents[i].id = id
                         THEN agents[CHOOSE i \in DOMAIN agents : agents[i].id = id]
                         ELSE [id |-> None]]
    /\ UNCHANGED <<tasks, checkpoints, logs, budget, total_tokens, pc, status,
                   task, agent_id, calls>>

call_update_agent_status(id, st, current_task_id) ==
    /\ pc = "store"
    /\ agents' = update_agent_status(agents, id, st, current_task_id)
    /\ ret' = [op |-> "update_agent_status", id |-> id]
    /\ UNCHANGED <<tasks, checkpoints, logs, budget, total_tokens, pc, status,
                   task, agent_id, calls>>

call_add_agent_tokens(id) ==
    /\ pc = "store"
    /\ \A i \in DOMAIN agents :
           agents[i].id = id => agents[i].total_tokens_used < MaxStoredTokens
    /\ agents' = add_agent_tokens(agents, id, RunTokens)
    /\ ret' = [op |-> "add_agent_tokens", id |-> id]
    /\ UNCHANGED <<tasks, checkpoints, logs, budget, total_tokens, pc, status,
                   task, agent_id, calls>>

NextAgents ==
    \/ \E id \in RegIds, agent_type \in AgentTypes :
           call_register_agent(id, agent_type)
    \/ \E id \in RegIds, st \in AgentStatus, t \in {NoTask, 1} :
           call_update_agent_status(id, st, t)
    \/ \E id \in RegIds : call_add_agent_tokens(id)

SpecAgents == InitAgents /\ [][NextAgents]_vars

(* initialize_tasks on any store *)

InitLoader ==
    /\ \E n \in 0..NumTasks : tasks \in TaskTables(n, {<<>>})
    /\ agents = _setup_agents(<<>>)
    /\ budget = MAX_TOKENS_BUDGET
    /\ NoRun

\* ret keeps the number of calls made, whether the first found the store
\* empty, and the catalog the first was given
call_initialize_tasks(cat) ==
    /\ pc = "store"
    /\ IF ret.op = "none" THEN TRUE ELSE ret.calls < MaxLoaderCalls
    /\ tasks' = initialize_tasks(tasks, cat)
    /\ logs' = IF tasks = <<>> THEN logs + 1 ELSE logs
    /\ ret' = IF ret.op = "none"
              THEN [op |-> "initialize_tasks", calls |-> 1,
                    from_empty |-> (tasks = <<>>), cat |-> cat]
              ELSE [ret EXCEPT !.calls = @ + 1]
    /\ UNCHANGED <<agents, checkpoints, budget, total_tokens, pc, status, task,
                   agent_id, calls>>

NextLoader == \E cat \in Catalogs : call_initialize_tasks(cat)

SpecLoader == InitLoader /\ [][NextLoader]_vars

(* the scheduler and update_task_status on the catalog A, B (after A), *)
(* C (after A)                                                          *)

CatalogABC == <<(<<>>), <<1>>, <<1>>>>

\* ret keeps the last call, the ids get_next_pending_task returned since B
\* or C last changed status, the status each task was last given and the
\* tasks that were given COMPLETED at some time
InitTasks ==
    /\ tasks = initialize_tasks(<<>>, CatalogABC)
    /\ agents = _setup_agents(<<>>)
    /\ budget = MAX_TOKENS_BUDGET
    /\ checkpoints = <<>>
    /\ logs = 1
    /\ total_tokens = [a \in AgentIds |-> 0]
    /\ pc = "store"
    /\ status = "none"
    /\ task = NoneTask
    /\ agent_id = None
    /\ calls = [t \in DOMAIN tasks |-> NoCalls]
    /\ ret = [op |-> "none", value |-> NoneTask, seen |-> {},
              last |-> [t \in DOMAIN tasks |-> "none"], stamped |-> {}]

tasks_get_next_pending_task ==
    /\ pc = "store"
    /\ LET t == get_next_pending_task(tasks)
       IN  ret' = [ret EXCEPT !.op = "get_next_pending_task",
                              !.value = t,
                              !.seen = IF t = NoneTask THEN @ ELSE @ \cup {t.id}]
    /\ UNCHANGED <<tasks, agents, checkpoints, logs, budget, total_tokens, pc,
                   status, task, agent_id, calls>>

tasks_update_task_status(task_id, st) ==
    /\ pc = "store"
    /\ tasks' = update_task_status(tasks, task_id, st,
                     IF st \in {"in_progress", "in_qa"}
                     THEN CodingAgentId(1) ELSE None)
    /\ ret' = [ret EXCEPT !.op = "update_task_status",
                          !.seen = IF task_id = 1 THEN @ ELSE {},
                          !.last[task_id] = st,
                          !.stamped = IF st = "completed"
                                      THEN @ \cup {task_id} ELSE @]
    /\ UNCHANGED <<agents, checkpoints, logs, budget, total_tokens, pc, status,
                   task, agent_id, calls>>

NextTasks ==
    \/ tasks_get_next_pending_task
    \/ \E task_id \in DOMAIN tasks, st \in TaskStatus :
           tasks_update_task_status(task_id, st)

SpecTasks == InitTasks /\ [][NextTasks]_vars

(* a process started on the store an earlier process committed *)

\* the committed store: any tasks, the agents as registered with the rows
\* of coding-1 and qa-agent as a run left them
InitRestart ==
    /\ \E n \in 0..NumTasks : tasks \in TaskTables(n, {<<>>})
    /\ \E st \in AgentStatus, cur \in {NoTask} \cup DOMAIN tasks,
          u \in 0..MaxStoredTokens, q \in 0..MaxStoredTokens :
          /\ st = "idle" <=> cur = NoTask
          /\ agents = add_agent_tokens(
                          add_agent_tokens(
                              update_agent_status(_setup_agents(<<>>),
                                                  CodingAgentId(1), st, cur),
                              CodingAgentId(1), u),
                          QaAgentId, q)
    /\ budget = MAX_TOKENS_BUDGET
    /\ checkpoints = <<>>
    /\ logs = 1
    /\ total_tokens = [a \in AgentIds |-> 0]
    /\ pc = "stopped"
    /\ status = "none"
    /\ task = NoneTask
    /\ agent_id = None
    /\ calls = [t \in DOMAIN tasks |-> NoCalls]
    /\ ret = [op |-> "none"]

\* Orchestrator(resume): _setup_agents(), then initialize_tasks unless
\* resume; ret keeps the tables as they were committed
orchestrator_init(resume, cat) ==
    /\ pc = "stopped"
    /\ agents' = _setup_agents(agents)
    /\ tasks' = IF resume THEN tasks ELSE initialize_tasks(tasks, cat)
    /\ logs' = IF ~ resume /\ tasks = <<>> THEN logs + 1 ELSE logs
    /\ calls' = [t \in DOMAIN tasks' |-> NoCalls]
    /\ ret' = [op |-> "Orchestrator", resume |-> resume,
               tasks |-> tasks, agents |-> agents]
    /\ pc' = "start"
    /\ UNCHANGED <<checkpoints, budget, total_tokens, status, task, agent_id>>

NextRestart ==
    \E resume \in BOOLEAN, cat \in Catalogs : orchestrator_init(resume, cat)

SpecRestart == InitRestart /\ [][NextRestart]_vars

(* should_checkpoint() on any number of completed tasks *)

InitCounted ==
    /\ \E n \in 0..MaxCounted, c \in 0..MaxCounted,
          st \in TaskStatus \ {"completed"} :
          /\ c <= n
          /\ tasks = [i \in 1..n |->
                         TaskRow(i, IF i <= c THEN "completed" ELSE st, <<>>)]
    /\ agents = _setup_agents(<<>>)
    /\ budget = MAX_TOKENS_BUDGET
    /\ NoRun

call_should_checkpoint ==
    /\ pc = "store"
    /\ ret' = [op |-> "should_checkpoint", value |-> should_checkpoint(tasks)]
    /\ UNCHANGED <<tasks, agents, checkpoints, logs, budget, total_tokens, pc,
                   status, task, agent_id, calls>>

SpecCounted == InitCounted /\ [][call_should_checkpoint]_vars

(* the catalog of the repository, loaded and worked off in scheduler order *)

InitCatalog ==
    /\ tasks = <<>>
    /\ agents = _setup_agents(<<>>)
    /\ budget = MAX_TOKENS_BUDGET
    /\ checkpoints = <<>>
    /\ logs = 0
    /\ total_tokens = [a \in AgentIds |-> 0]
    /\ pc = "store"
    /\ status = "none"
    /\ task = NoneTask
    /\ agent_id = None
    /\ calls = <<>>
    /\ ret = [op |-> "none"]

catalog_initialize_tasks ==
    /\ pc = "store"
    /\ tasks' = initialize_tasks(tasks, BROWSER_TASKS)
    /\ logs' = IF tasks = <<>> THEN logs + 1 ELSE logs
    /\ calls' = [t \in DOMAIN tasks' |-> NoCalls]
    /\ ret' = [op |-> "initialize_tasks"]
    /\ UNCHANGED <<agents, checkpoints, budget, total_tokens, pc, status, task,
                   agent_id>>

\* the task the scheduler returns ends COMPLETED or BLOCKED
catalog_finish(st) ==
    /\ pc = "store"
    /\ LET t == get_next_pending_task(tasks)
       IN  /\ t # NoneTask
           /\ tasks' = update_task_status(tasks, t.id, st, None)
           /\ ret' = [op |-> "update_task_status", task_id |-> t.id]
    /\ UNCHANGED <<agents, checkpoints, logs, budget, total_tokens, pc, status,
                   task, agent_id, calls>>

NextCatalog ==
    \/ catalog_initialize_tasks
    \/ \E st \in {"completed", "blocked"} : catalog_finish(st)

SpecCatalog == InitCatalog /\ [][NextCatalog]_vars

(* increment_task_retries called by two callers on one store *)

Callers == {"first", "second"}

\* ret keeps the task, its counter before the calls, each caller's place
\* (before the UPDATE, before the SELECT, returned) and the value returned
InitIncrement ==
    /\ \E n \in 1..NumTasks, task_id \in 1..NumTasks, r \in 0..MaxFailureCalls :
          /\ task_id <= n
          /\ \E ts \in TaskTables(n, {<<>>}) :
                tasks = [ts EXCEPT ![task_id].retries = r]
          /\ ret = [op |-> "increment_task_retries", task_id |-> task_id,
                    old |-> r,
                    at |-> [c \in Callers |-> "update"],
                    value |-> [c \in Callers |-> 0]]
    /\ agents = _setup_agents(<<>>)
    /\ budget = MAX_TOKENS_BUDGET
    /\ checkpoints = <<>>
    /\ logs = 0
    /\ total_tokens = [a \in AgentIds |-> 0]
    /\ pc = "store"
    /\ status = "none"
    /\ task = NoneTask
    /\ agent_id = None
    /\ calls = [t \in DOMAIN tasks |-> NoCalls]

\* UPDATE tasks SET retries = retries + 1, committed
increment_update(c) ==
    /\ pc = "store"
    /\ ret.at[c] = "update"
    /\ tasks' = increment_task_retries(tasks, ret.task_id)
    /\ ret' = [ret EXCEPT !.at[c] = "select"]
    /\ UNCHANGED <<agents, checkpoints, logs, budget, total_tokens, pc, status,
                   task, agent_id, calls>>

\* SELECT retries, returned
increment_select(c) ==
    /\ pc = "store"
    /\ ret.at[c] = "select"
    /\ ret' = [ret EXCEPT !.at[c] = "returned",
                          !.value[c] = get_task(tasks, ret.task_id).retries]
    /\ UNCHANGED <<tasks, agents, checkpoints, logs, budget, total_tokens, pc,
                   status, task, agent_id, calls>>

NextIncrement ==
    \E c \in Callers : increment_update(c) \/ increment_select(c)

SpecIncrement == InitIncrement /\ [][NextIncrement]_vars

-----------------------------------------------------------------------------
(* Properties of the run *)

\* every dependency of the task with id task_id is a COMPLETED task of ts
DepsCompleted(ts, task_id) ==
    \A d \in Range(get_task(ts, task_id).dependencies) :
        /\ get_task(ts, d) # NoneTask
        /\ get_task(ts, d).status = "completed"

AllCompleted ==
    /\ tasks # <<>>
    /\ \A i \in DOMAIN tasks : tasks[i].status = "completed"

AgentRow(id) == agents[CHOOSE i \in DOMAIN agents : agents[i].id = id]

\* C1: the task get_next_pending_task returned to the run has every
\* dependency COMPLETED, and no task moves PENDING -> IN_PROGRESS while one
\* of its dependencies is not COMPLETED.
C1_DepsBeforeStart ==
    /\ [](pc = "process" => DepsCompleted(tasks, task.id))
    /\ [][\A i \in DOMAIN tasks :
             (tasks[i].status = "pending" /\ tasks'[i].status = "in_progress")
                 => DepsCompleted(tasks, tasks[i].id)]_vars

C1_Witness ==
    \E i \in DOMAIN tasks :
        /\ tasks[i].status = "in_progress"
        /\ tasks[i].dependencies # <<>>

\* C4 (as claimed): a task processed with the Worker always succeeding and
\* the Reviewer always rejecting ends BLOCKED with its coding agent IDLE
\* after MAX_TASK_RETRIES + 1 Worker invocations.
C4_AlwaysRejected ==
    \A t \in DOMAIN tasks :
        ( /\ pc = "checkpoint"
          /\ task.id = tasks[t].id
          /\ calls[t].work_failed = 0
          /\ ~ calls[t].unclear
          /\ calls[t].review = calls[t].work
          /\ tasks[t].status # "completed" )
        => /\ tasks[t].status = "blocked"
           /\ AgentRow(agent_id).status = "idle"
           /\ calls[t].work = MAX_TASK_RETRIES + 1

\* C5: no task is ever worked on (work_on_task and fix_issues together)
\* more than MAX_TASK_RETRIES + 1 times.
C5_WorkerInvocationsBounded ==
    \A t \in DOMAIN tasks : calls[t].work <= MAX_TASK_RETRIES + 1

C5_Witness ==
    \E t \in DOMAIN tasks :
        /\ tasks[t].status = "blocked"
        /\ calls[t].work_failed > 0
        /\ calls[t].review > 0
        /\ calls[t].work = MAX_TASK_RETRIES

\* C9 (as claimed): once all tasks are COMPLETED the next health check
\* returns COMPLETED.
C9_CheckReturnsCompleted ==
    [][(AllCompleted /\ pc = "check") => status' = "completed"]_vars

\* C9 (amended): once all tasks are COMPLETED the next health check returns
\* COMPLETED when usage is below the budget and BUDGET_EXCEEDED otherwise,
\* and either way the loop stops there: the scheduler and the capabilities
\* are not called again.
C9_StopsWhenAllCompleted ==
    /\ [](AllCompleted => pc \in {"checkpoint", "check", "done"})
    /\ [][(AllCompleted /\ pc = "check") =>
             /\ pc' = "done"
             /\ status' = IF get_total_tokens_used(agents) >= budget
                           THEN "budget_exceeded" ELSE "completed"]_vars
    /\ [][AllCompleted => (calls' = calls /\ pc' # "get_next")]_vars

C9_Witness ==
    /\ AllCompleted
    /\ pc = "done"
    /\ status = "completed"
    /\ Len(tasks) > 1

-----------------------------------------------------------------------------
(* Properties of the store and the circuit breaker *)

\* the tasks get_next_pending_task may return: PENDING, every dependency a
\* COMPLETED task
Eligible ==
    {i \in DOMAIN tasks :
        /\ tasks[i].status = "pending"
        /\ DepsCompleted(tasks, tasks[i].id)}

\* C2: get_next_pending_task returns the PENDING task of lowest id whose
\* dependencies are all COMPLETED, and none exactly when there is no such
\* task.
C2_LowestEligible ==
    ret.op = "get_next_pending_task" =>
        IF Eligible = {} THEN ret.value = NoneTask
        ELSE /\ \E i \in Eligible : ret.value = tasks[i]
             /\ \A i \in Eligible : ret.value.id <= tasks[i].id

C2_Witness ==
    /\ ret.op = "get_next_pending_task"
    /\ ret.value # NoneTask
    /\ \E i \in DOMAIN tasks :
          tasks[i].status = "pending" /\ tasks[i].id < ret.value.id

\* C3: the n-th call of handle_task_failure on a task leaves its retry
\* counter at n and returns true exactly when n < MAX_TASK_RETRIES: true on
\* calls 1 .. MAX_TASK_RETRIES - 1, false on call MAX_TASK_RETRIES.
C3_RetryCeiling ==
    /\ \A t \in DOMAIN tasks : tasks[t].retries = calls[t].failures
    /\ ret.op = "handle_task_failure" =>
          ret.value = (calls[ret.task_id].failures < MAX_TASK_RETRIES)

C3_Witness ==
    /\ ret.op = "handle_task_failure"
    /\ calls[ret.task_id].failures = MAX_TASK_RETRIES
    /\ ret.value = FALSE

Usage == get_total_tokens_used(agents)
BlockedCount == Cardinality({i \in DOMAIN tasks : tasks[i].status = "blocked"})
AllTerminal ==
    \A i \in DOMAIN tasks : tasks[i].status \in {"completed", "blocked"}

\* C6: check() tests the budget first and the blocked count second: with
\* usage >= budget it returns BUDGET_EXCEEDED whatever the blocked count is,
\* with usage below the budget and blocked count >= MAX_BLOCKED_TASKS it
\* returns NEEDS_HUMAN, and BUDGET_EXCEEDED is returned in no other case.
C6_BudgetFirst ==
    ret.op = "check" =>
        /\ Usage >= budget => ret.value = "budget_exceeded"
        /\ (Usage < budget /\ BlockedCount >= MAX_BLOCKED_TASKS)
               => ret.value = "needs_human"
        /\ ret.value = "budget_exceeded" => Usage >= budget

C6_Witness ==
    /\ ret.op = "check"
    /\ Usage >= budget
    /\ BlockedCount >= MAX_BLOCKED_TASKS
    /\ ret.value = "budget_exceeded"

\* C7: with usage below the budget, check() returns NEEDS_HUMAN iff the
\* blocked count is >= MAX_BLOCKED_TASKS or every task is COMPLETED or
\* BLOCKED and at least one is BLOCKED.
C7_NeedsHuman ==
    (ret.op = "check" /\ Usage < budget) =>
        (ret.value = "needs_human"
            <=> \/ BlockedCount >= MAX_BLOCKED_TASKS
                \/ AllTerminal /\ BlockedCount >= 1)

C7_Witness ==
    /\ ret.op = "check"
    /\ Usage < budget
    /\ ret.value = "needs_human"
    /\ BlockedCount >= MAX_BLOCKED_TASKS
    /\ ~ AllTerminal

\* C8 (as claimed): for a tasks table of any size, when neither the budget
\* nor the blocked-count test matches, check() returns COMPLETED if every
\* task is terminal and none is BLOCKED, and RUNNING only when some task is
\* not terminal.
C8_CompletedElseRunning ==
    (ret.op = "check" /\ Usage < budget /\ BlockedCount < MAX_BLOCKED_TASKS) =>
        /\ (AllTerminal /\ BlockedCount = 0) => ret.value = "completed"
        /\ ret.value = "running" => ~ AllTerminal

\* C8 (amended): the same for every non-empty tasks table; on an empty
\* tasks table check() returns RUNNING.
C8_CompletedElseRunningNonEmpty ==
    (ret.op = "check" /\ Usage < budget /\ BlockedCount < MAX_BLOCKED_TASKS) =>
        IF tasks = <<>> THEN ret.value = "running"
        ELSE /\ (AllTerminal /\ BlockedCount = 0) => ret.value = "completed"
             /\ ret.value = "running" => ~ AllTerminal

C8_Witness ==
    /\ ret.op = "check"
    /\ ret.value = "completed"
    /\ Len(tasks) >= 2

\* C10: after register_agent(id, role) the store holds one row for id, with
\* that role, status IDLE, no current task and usage 0, whatever the row was
\* before; registering the same id and role again leaves the agents table
\* as it is.
C10_RegisterResets ==
    /\ [](ret.op = "register_agent" =>
            /\ Cardinality({i \in DOMAIN agents : agents[i].id = ret.id}) = 1
            /\ AgentRow(ret.id) =
                   [id |-> ret.id, agent_type |-> ret.agent_type,
                    status |-> "idle", current_task_id |-> NoTask,
                    total_tokens_used |-> 0, conversation_history |-> <<>>])
    /\ [][( /\ ret.op = "register_agent"
            /\ ret'.op = "register_agent"
            /\ ret'.id = ret.id
            /\ ret'.agent_type = ret.agent_type ) => agents' = agents]_vars

C10_Witness ==
    /\ ret.op = "register_agent"
    /\ ret.prior.id # None
    /\ ret.prior.status = "working"
    /\ ret.prior.total_tokens_used > 0
    /\ ret.prior.current_task_id # NoTask
    /\ Len(agents) = 2

\* the tasks table holds exactly the tasks of catalog cat, once, as loaded
IsCatalogLoaded(ts, cat) ==
    /\ Len(ts) = Len(cat)
    /\ \A i \in DOMAIN ts :
          /\ ts[i].id = i
          /\ ts[i].status = "pending"
          /\ ts[i].retries = 0
          /\ ts[i].dependencies = cat[i]

\* C11: initialize_tasks on a store that holds a task creates no task and
\* changes none (and logs nothing); called any number of times from an empty
\* store it leaves exactly the tasks of the catalog, once.
C11_LoaderIdempotent ==
    /\ [](( /\ ret.op = "initialize_tasks"
            /\ ret.from_empty ) => IsCatalogLoaded(tasks, ret.cat))
    /\ [][tasks # <<>> => (tasks' = tasks /\ logs' = logs)]_vars

C11_Witness ==
    /\ ret.op = "initialize_tasks"
    /\ ret.from_empty
    /\ ret.calls = 2
    /\ Len(tasks) = 2

\* C12: on the catalog A, B (after A), C (after A) the scheduler returns B
\* or C only when A is COMPLETED, and never returns both B and C in calls
\* between which neither B nor C changed status.
C12_NotBothDependants ==
    /\ (ret.op = "get_next_pending_task" /\ ret.value # NoneTask
            /\ ret.value.id \in {2, 3})
          => tasks[1].status = "completed"
    /\ ~ ({2, 3} \subseteq ret.seen)

C12_Witness ==
    /\ ret.op = "get_next_pending_task"
    /\ ret.seen = {2}
    /\ tasks[1].status = "completed"
    /\ tasks[2].status = "pending"
    /\ tasks[3].status = "pending"

\* C13 (as claimed): after update_task_status calls on a task, completed_at
\* is set when the last status given was COMPLETED and null when it was
\* another status.
C13_StampIffCompleted ==
    \A t \in DOMAIN tasks :
        ret.last[t] # "none" =>
            (tasks[t].completed_at = "set" <=> ret.last[t] = "completed")

\* C13 (amended): completed_at is set when the last status given was
\* COMPLETED; a transition to another status leaves completed_at as it was:
\* null if the task was never given COMPLETED, still set if it once was.
C13_StampKept ==
    \A t \in DOMAIN tasks :
        /\ ret.last[t] = "completed" => tasks[t].completed_at = "set"
        /\ ret.last[t] \notin {"none", "completed"} =>
              (tasks[t].completed_at = "set" <=> t \in ret.stamped)

C13_Witness ==
    \E t \in DOMAIN tasks :
        /\ ret.last[t] = "pending"
        /\ t \in ret.stamped
        /\ tasks[t].completed_at = "set"

\* the status of agent id in the agents table ags
AgentStatusIn(ags, id) ==
    ags[CHOOSE i \in DOMAIN ags : ags[i].id = id].status

\* C14 (as claimed): when work_on_task fails on a task IN_PROGRESS, either a
\* retry is allowed and the task is PENDING and the agent assigned to it is
\* IDLE in the store, or no retry is allowed and the task is BLOCKED.
C14_WorkerFailureResets ==
    [][(pc = "work" /\ pc' = "checkpoint") =>
          LET t == get_task(tasks, task.id)
              u == get_task(tasks', task.id)
          IN  /\ t.status = "in_progress"
              /\ IF u.retries < MAX_TASK_RETRIES
                 THEN /\ u.status = "pending"
                      /\ AgentStatusIn(agents', t.assigned_agent) = "idle"
                 ELSE u.status = "blocked"]_vars

\* C15 (as claimed): when the processing of a task ends with the task
\* BLOCKED, the coding agent that worked on it is IDLE.
C15_BlockedIdlesAgent ==
    ( /\ pc = "checkpoint"
      /\ get_task(tasks, task.id).status = "blocked" )
    => AgentStatusIn(agents, agent_id) = "idle"

\* C16: when the Reviewer approves, the task becomes COMPLETED and its
\* coding agent IDLE; a task becomes COMPLETED in no other step; and a task
\* that is COMPLETED or BLOCKED keeps its status and retry counter and has
\* no Worker or Reviewer invocation any more.
C16_TerminalStatuses ==
    /\ [][(review_outcome("approve", calls) \/ fix_review_outcome("approve", calls))
            => /\ get_task(tasks', task.id).status = "completed"
               /\ AgentStatusIn(agents', get_task(tasks, task.id).assigned_agent)
                     = "idle"]_vars
    /\ [][\A t \in DOMAIN tasks :
            (tasks[t].status # "completed" /\ tasks'[t].status = "completed")
            => /\ pc \in {"qa", "fix_qa"}
               /\ task.id = tasks[t].id
               /\ AgentStatusIn(agents', agent_id) = "idle"]_vars
    /\ [][\A t \in DOMAIN tasks :
            tasks[t].status \in {"completed", "blocked"}
            => /\ tasks'[t].status = tasks[t].status
               /\ tasks'[t].retries = tasks[t].retries
               /\ calls'[t] = calls[t]]_vars

C16_Witness ==
    /\ pc = "checkpoint"
    /\ get_task(tasks, task.id).status = "blocked"
    /\ \E t \in DOMAIN tasks :
          /\ tasks[t].status = "completed"
          /\ calls[t].review >= 1

\* C17: a review that signals neither approve nor reject is handled as an
\* explicit reject is: the step the run takes on it, at the first review and
\* at a review inside the fix cycle, is the step an explicit reject takes
\* from the same state (same tasks, agents, logs, usage, invocation counts
\* and continuation).
C17_UnclearAsReject ==
    [][( /\ pc \in {"qa", "fix_qa"}
         /\ calls'[task.id].unclear
         /\ get_task(tasks', task.id).status # "completed" )
       => IF pc = "qa"
          THEN review_outcome("reject", after_verdict("none"))
          ELSE fix_review_outcome("reject", after_verdict("none"))]_vars

C17_Witness ==
    /\ pc = "fix"
    /\ calls[task.id].unclear
    /\ calls[task.id].review >= 2

InFlight == {i \in DOMAIN tasks : tasks[i].status \in {"in_progress", "in_qa"}}

\* C18: the health check comes before every scheduling decision: the
\* scheduler is called only after a check that returned RUNNING, a task
\* moves PENDING -> IN_PROGRESS only with the last check RUNNING and with
\* usage below the budget and fewer than MAX_BLOCKED_TASKS tasks BLOCKED, and
\* a check that is not RUNNING stops the loop for good.
C18_CheckBeforeScheduling ==
    /\ [][pc' = "get_next" => (pc = "check" /\ status' = "running")]_vars
    /\ [][pc' = "process" => (pc = "get_next" /\ status = "running")]_vars
    /\ [][\A t \in DOMAIN tasks :
            (tasks[t].status = "pending" /\ tasks'[t].status = "in_progress")
            => /\ pc = "process"
               /\ status = "running"
               /\ Usage < budget
               /\ BlockedCount < MAX_BLOCKED_TASKS]_vars
    /\ [][(pc = "check" /\ status' # "running") => pc' = "done"]_vars
    /\ [][pc # "done"]_vars

C18_Witness ==
    /\ pc = "done"
    /\ status = "needs_human"
    /\ Eligible # {}
    /\ \A t \in DOMAIN tasks : calls[t].work = 0

AgentRowIn(ags, id) == ags[CHOOSE i \in DOMAIN ags : ags[i].id = id]

\* C20 (as claimed): after a start in resume mode every task is as it was
\* committed, and every agent's status, current task and usage, and so the
\* total usage, are as they were committed.
C20_ResumeKeepsState ==
    (ret.op = "Orchestrator" /\ ret.resume) =>
        /\ tasks = ret.tasks
        /\ \A id \in AgentIds :
              /\ AgentRowIn(agents, id).status = AgentRowIn(ret.agents, id).status
              /\ AgentRowIn(agents, id).current_task_id
                    = AgentRowIn(ret.agents, id).current_task_id
              /\ AgentRowIn(agents, id).total_tokens_used
                    = AgentRowIn(ret.agents, id).total_tokens_used
        /\ get_total_tokens_used(agents) = get_total_tokens_used(ret.agents)

CompletedCount ==
    Cardinality({i \in DOMAIN tasks : tasks[i].status = "completed"})

\* C21: should_checkpoint returns true exactly when the number of COMPLETED
\* tasks is a positive multiple of CHECKPOINT_INTERVAL.
C21_ShouldCheckpoint ==
    ret.op = "should_checkpoint" =>
        (ret.value <=> \E k \in 1..Len(tasks) :
                           CompletedCount = k * CHECKPOINT_INTERVAL)

C21_Witness ==
    /\ ret.op = "should_checkpoint"
    /\ ret.value
    /\ CompletedCount = CHECKPOINT_INTERVAL + CHECKPOINT_INTERVAL
    /\ Len(tasks) > CompletedCount

\* C22: in the store the loader makes from the catalog, every dependency id
\* of a task is the id of a stored task created before it (smaller than the
\* task's own id), so the dependency graph has no cycle.
C22_DependenciesPointBack ==
    /\ \A i \in DOMAIN tasks :
          \A d \in Range(tasks[i].dependencies) :
              /\ d < tasks[i].id
              /\ get_task(tasks, d) # NoneTask
    /\ IsDAG([i \in DOMAIN tasks |-> tasks[i].dependencies])

C22_Witness ==
    /\ Len(tasks) = Len(BROWSER_TASKS)
    /\ \A i \in DOMAIN tasks : tasks[i].status = "completed"

\* C23 (as claimed): each call of increment_task_retries returns the counter
\* as its own increment left it, so two calls on one task, however they
\* interleave, return old + 1 and old + 2.
C23_AtomicIncrement ==
    (\A c \in Callers : ret.at[c] = "returned") =>
        {ret.value[c] : c \in Callers} = {ret.old + 1, ret.old + 2}

\* C24: check() appends exactly one checkpoint when it returns
\* BUDGET_EXCEEDED and when it returns NEEDS_HUMAN with MAX_BLOCKED_TASKS or
\* more tasks blocked, appends none when it returns anything else (COMPLETED,
\* RUNNING, NEEDS_HUMAN with fewer blocked tasks), and changes no task and no
\* agent.
C24_CheckCheckpoints ==
    [][ret'.op = "check" =>
          /\ tasks' = tasks
          /\ agents' = agents
          /\ IF \/ ret'.value = "budget_exceeded"
                \/ ret'.value = "needs_human" /\ BlockedCount >= MAX_BLOCKED_TASKS
             THEN /\ Len(checkpoints') = Len(checkpoints) + 1
                  /\ SubSeq(checkpoints', 1, Len(checkpoints)) = checkpoints
                  /\ checkpoints'[Len(checkpoints')].completed_tasks = CompletedCount
                  /\ checkpoints'[Len(checkpoints')].total_tokens = Usage
             ELSE checkpoints' = checkpoints]_vars

C24_Witness ==
    /\ ret.op = "check"
    /\ ret.value = "needs_human"
    /\ BlockedCount < MAX_BLOCKED_TASKS
    /\ checkpoints = <<>>

IdleCoding ==
    {i \in DOMAIN agents :
        agents[i].agent_type = "coding" /\ agents[i].status = "idle"}

\* C25: get_idle_coding_agent returns none exactly when no coding agent is
\* IDLE and otherwise the earliest-registered agent that is of type coding
\* and IDLE; _process_task assigns that agent when there is one and the
\* first coding agent when there is none.
C25_IdleCodingAgent ==
    /\ [](LET r == get_idle_coding_agent(agents)
          IN  IF IdleCoding = {} THEN r = None
              ELSE \E i \in IdleCoding :
                      /\ agents[i].id = r
                      /\ \A j \in IdleCoding : i <= j)
    /\ [][pc = "process" =>
            IF IdleCoding = {} THEN agent_id' = CodingAgentId(1)
            ELSE \E i \in IdleCoding :
                    /\ agents[i].id = agent_id'
                    /\ \A j \in IdleCoding : i <= j]_vars

C25_Witness ==
    /\ pc = "work"
    /\ agent_id = CodingAgentId(1)
    /\ IdleCoding = {}
    /\ \E t \in DOMAIN tasks :
          /\ tasks[t].id # task.id
          /\ calls[t].work_failed = MAX_TASK_RETRIES

\* C26: in a run started on a store with no task IN_PROGRESS or IN_QA, at
\* most one task is IN_PROGRESS or IN_QA at any time and none is at the head
\* of a loop iteration (check, scheduling) or after the loop.
C26_OneTaskInFlight ==
    /\ Cardinality(InFlight) <= 1
    /\ pc \in {"start", "check", "get_next", "process", "checkpoint", "done"}
          => InFlight = {}
    /\ InFlight # {} => tasks[CHOOSE i \in InFlight : TRUE].id = task.id

C26_Witness ==
    /\ pc = "check"
    /\ \E t \in DOMAIN tasks :
          /\ tasks[t].status = "pending"
          /\ calls[t].work_failed > 0
    /\ \E t \in DOMAIN tasks :
          /\ tasks[t].status = "blocked"
          /\ calls[t].review > 0

\* C27 (as claimed): while the Worker fixes a rejected task the task is
\* IN_PROGRESS and its agent WORKING, and while the Reviewer reviews the fix
\* the task is IN_QA and its agent WAITING_QA.
C27_FixCycleInProgress ==
    /\ pc = "fix" =>
          /\ get_task(tasks, task.id).status = "in_progress"
          /\ AgentStatusIn(agents, agent_id) = "working"
    /\ pc = "fix_qa" =>
          /\ get_task(tasks, task.id).status = "in_qa"
          /\ AgentStatusIn(agents, agent_id) = "waiting_qa"

\* the reviews of task t that returned something else than approve
Rejections(t) ==
    calls[t].review
      - (IF pc \in {"qa", "fix_qa"} /\ task.id = tasks[t].id THEN 1 ELSE 0)
      - (IF tasks[t].status = "completed" THEN 1 ELSE 0)

\* C28: at every point of a run a task's stored retry counter is the number
\* of failures seen for it so far: failed Worker runs (first work and fixes)
\* plus reviews that did not approve.
C28_RetriesCountFailures ==
    \A t \in DOMAIN tasks :
        tasks[t].retries = calls[t].work_failed + Rejections(t)

C28_Witness ==
    \E t \in DOMAIN tasks :
        /\ tasks[t].retries = MAX_TASK_RETRIES
        /\ calls[t].work_failed = 1
        /\ calls[t].review = 2
        /\ calls[t].unclear

\* C29 (as claimed): every agent's stored usage is the sum of what its runs
\* consumed, each unit once, and the total the budget test uses is the sum of
\* the stored usages.
C29_UsageCountedOnce ==
    /\ \A id \in AgentIds :
          AgentRowIn(agents, id).total_tokens_used = total_tokens[id]
    /\ Usage = total_tokens[QaAgentId]
                 + total_tokens[CodingAgentId(1)]
                 + total_tokens[CodingAgentId(2)]
                 + total_tokens[CodingAgentId(3)]

C31_RunTerminates ==
    /\ <>(pc = "done")
    /\ [](\A t \in DOMAIN tasks :
            /\ calls[t].failures <= MAX_TASK_RETRIES
            /\ calls[t].processed <= MAX_TASK_RETRIES)

C31_Witness ==
    /\ pc = "done"
    /\ \E t \in DOMAIN tasks :
          /\ calls[t].processed = MAX_TASK_RETRIES
          /\ calls[t].failures = MAX_TASK_RETRIES
    /\ \E t \in DOMAIN tasks :
          /\ calls[t].processed = 1
          /\ calls[t].failures = MAX_TASK_RETRIES

Processing == {"process", "work", "qa", "fix", "fix_qa"}

C33_AgentsIdleAtLoopHead ==
    /\ pc \in {"check", "get_next"} =>
          \A i \in DOMAIN agents :
              agents[i].agent_type = "coding" => agents[i].status = "idle"
    /\ \A i \in DOMAIN agents :
          agents[i].status \in {"working", "waiting_qa"} =>
              get_task(tasks, agents[i].current_task_id).status
                  \in {"in_progress", "in_qa"}

\* every dependency of a stored task points to a lower id
BackwardDeps ==
    \A i \in DOMAIN tasks :
        \A d \in Range(tasks[i].dependencies) : d < tasks[i].id

\* C35: in a run over a catalog whose dependencies point to lower ids, the
\* scheduler never returns a task of lower id than the task it returned
\* before, and a task that its processing left PENDING is the task it
\* returns next.
C35_SelectionNonDecreasing ==
    [][(BackwardDeps /\ pc = "get_next" /\ task # NoneTask) =>
          /\ task' # NoneTask => task'.id >= task.id
          /\ get_task(tasks, task.id).status = "pending" => task'.id = task.id]_vars

C35_Witness ==
    /\ BackwardDeps
    /\ pc = "process"
    /\ task.id > 1
    /\ calls[task.id].processed = 1
    /\ \E t \in DOMAIN tasks :
          /\ tasks[t].id < task.id
          /\ calls[t].processed > 1

\* C36: in a fresh run every retry counter is in 0..MAX_TASK_RETRIES, a
\* BLOCKED task has its counter at MAX_TASK_RETRIES, and a task that is
\* PENDING, IN_PROGRESS or COMPLETED has it below MAX_TASK_RETRIES.
C36_RetryCounterRange ==
    \A t \in DOMAIN tasks :
        /\ tasks[t].retries \in 0..MAX_TASK_RETRIES
        /\ tasks[t].status = "blocked" => tasks[t].retries = MAX_TASK_RETRIES
        /\ tasks[t].status \in {"pending", "in_progress", "completed"}
              => tasks[t].retries < MAX_TASK_RETRIES

C36_Witness ==
    /\ \E t \in DOMAIN tasks :
          /\ tasks[t].status = "blocked"
          /\ tasks[t].retries = MAX_TASK_RETRIES
    /\ \E t \in DOMAIN tasks :
          /\ tasks[t].status = "completed"
          /\ tasks[t].retries = MAX_TASK_RETRIES - 1


\* C34 (as claimed): when the orchestrator is restarted on a store in which
\* a task is IN_PROGRESS or IN_QA, that task is eventually processed again
\* and reaches COMPLETED or BLOCKED, and the outer loop eventually
\* terminates.  The code never selects such a task again
\* (get_next_pending_task reads PENDING rows only) and run() keeps waiting
\* for it.
C34_InFlightResumed ==
    /\ (InFlight # {}) ~> (InFlight = {})
    /\ <>(pc = "done")

=============================================================================
